---- MODULE Spec2Model ----
(***************************************************************************)
(* A model of the code-base RAG service: the repository ingestion path     *)
(* (clone, scan, chunk, store under a namespace) and the query path        *)
(* (embed, retrieve, generate).                                            *)
(*                                                                         *)
(* Python strings are modelled as sequences of one-character strings, so   *)
(* that split, replace, join and the substring test `in` are computed the  *)
(* way the interpreter computes them.                                      *)
(*                                                                         *)
(* The specifications share the variables:                                 *)
(*   SpecNs    the namespace / clone-path derivation, on bounded URLs;     *)
(*   SpecScan  parse_repo_store_all on bounded repositories;               *)
(*   SpecEmbed generate_embedding on bounded batches of chunks;            *)
(*   SpecParse SimpleTreeSitterParser.parse on bounded file texts;         *)
(*   SpecBackend the handlers of src/backend/main.py;                      *)
(*   SpecClone clone_repo of src/backend/api/github_clone.py, which no     *)
(*             handler calls, beside POST /submit-repo;                    *)
(*   SpecStore the store_embeddings of src/backend/api/pineconestore.py,   *)
(*             which no handler calls, beside POST /submit-repo;           *)
(*   Spec      the HTTP handlers of src/main.py.  The handlers are          *)
(*            `async def` bodies without a single await, so each request   *)
(*            runs to completion on the event loop: one action is one      *)
(*            request, and the calls it made are kept in resp.calls.       *)
(***************************************************************************)
EXTENDS Integers, Sequences, FiniteSets, TLC

VARIABLES
    url,        \* SpecNs: the repo_url under derivation
    nsOut,      \* SpecNs: [done, ns, path] the derived namespace and clone path
    tree,       \* SpecScan: [name, files] the cloned repository on disk
    scanOut,    \* SpecScan: the outcome of parse_repo_store_all
    cloned,     \* Spec: repo_name -> what lies in CLONE_DIR/repo_name
    index,      \* Spec: namespace -> set of stored vectors
    cloneCalls, \* Spec: repo_name -> number of Repo.clone_from invocations
    nSubmits,   \* Spec: number of submit-repo requests served
    resp,       \* Spec: the last request and its response
    batch,      \* SpecEmbed: the chunks handed to generate_embedding
    embedOut,   \* SpecEmbed: the outcome of generate_embedding
    source,     \* SpecParse: [code, children] a file text and its syntax tree
    parseOut    \* SpecParse: the outcome of SimpleTreeSitterParser.parse

vars == <<url, nsOut, tree, scanOut, cloned, index, cloneCalls, nSubmits, resp,
          batch, embedOut, source, parseOut>>

----------------------------------------------------------------------------
(* Strings *)

\* "a" in "xay": Python's substring test
IsSubstr(s, t) ==
    \E i \in 0..(Len(t) - Len(s)) : SubSeq(t, i + 1, i + Len(s)) = s

\* s.endswith(x)
EndsWith(s, x) ==
    /\ Len(s) >= Len(x)
    /\ SubSeq(s, Len(s) - Len(x) + 1, Len(s)) = x

Slash == <<"/">>
DotGit == <<".", "g", "i", "t">>

\* s.split("/")[-1]: what follows the last "/", the whole string without one
RECURSIVE LastSegment(_)
LastSegment(s) ==
    IF s = <<>> THEN <<>>
    ELSE IF s[Len(s)] = "/" THEN <<>>
    ELSE LastSegment(SubSeq(s, 1, Len(s) - 1)) \o <<s[Len(s)]>>

\* s.replace(".git", ""): every non-overlapping occurrence, left to right
RECURSIVE RemoveAllDotGit(_)
RemoveAllDotGit(s) ==
    IF Len(s) < Len(DotGit) THEN s
    ELSE IF SubSeq(s, 1, Len(DotGit)) = DotGit
         THEN RemoveAllDotGit(SubSeq(s, Len(DotGit) + 1, Len(s)))
         ELSE <<s[1]>> \o RemoveAllDotGit(Tail(s))

\* repo_url.split("/")[-1].replace(".git", "")
RepoName(repo_url) == RemoveAllDotGit(LastSegment(repo_url))

CLONE_DIR == <<".", "/", "c", "l", "o", "n", "e", "d", "_", "r", "e", "p", "o", "s">>

\* os.path.join(a, b) for a non-empty a and a b that does not start with "/"
PathJoin(a, b) == IF EndsWith(a, Slash) THEN a \o b ELSE a \o Slash \o b

\* os.path.join(CLONE_DIR, repo_name)
RepoPath(repo_name) == PathJoin(CLONE_DIR, repo_name)

----------------------------------------------------------------------------
(* The source scanner and the structural chunker: chunking_parsing_AST.py *)

SUPPORTED_EXTENSIONS ==
    { <<".", "p", "y">>,
      <<".", "j", "a", "v", "a">>,
      <<".", "j", "s">>,
      <<".", "t", "s">>,
      <<".", "c", "p", "p">>,
      <<".", "h">>,
      <<".", "i", "p", "y", "n", "b">> }

IGNORED_EXTENSIONS ==
    { <<".", "p", "k", "l">>,
      <<".", "n", "p", "y">>,
      <<".", "h", "5">>,
      <<".", "b", "i", "n">>,
      <<".", "e", "x", "e">>,
      <<".", "d", "l", "l">>,
      <<".", "s", "o">>,
      <<".", "o">>,
      <<".", "c", "l", "a", "s", "s">>,
      <<".", "l", "o", "g">>,
      <<".", "t", "x", "t">>,
      <<".", "m", "d">>,
      <<".", "c", "s", "v">>,
      <<".", "j", "s", "o", "n">>,
      <<".", "x", "m", "l">>,
      <<".", "y", "a", "m", "l">>,
      <<".", "y", "m", "l">>,
      <<".", "l", "o", "c", "k">> }

IGNORED_DIRS ==
    { <<"n", "o", "d", "e", "_", "m", "o", "d", "u", "l", "e", "s">>,
      <<"v", "e", "n", "v">>,
      <<"e", "n", "v">>,
      <<"d", "i", "s", "t">>,
      <<"b", "u", "i", "l", "d">>,
      <<".", "g", "i", "t">>,
      <<"_", "_", "p", "y", "c", "a", "c", "h", "e", "_", "_">>,
      <<".", "n", "e", "x", "t">>,
      <<".", "v", "s", "c", "o", "d", "e">>,
      <<"v", "e", "n", "d", "o", "r">> }

\* os.path.splitext(file)[1]: from the last "." on, unless only dots precede it
SplitExt(file) ==
    LET dots == {i \in 1..Len(file) : file[i] = "."} IN
    IF dots = {} THEN <<>>
    ELSE LET last == CHOOSE i \in dots : \A j \in dots : j <= i IN
         IF \A j \in 1..(last - 1) : file[j] = "." THEN <<>>
         ELSE SubSeq(file, last, Len(file))

\* the root os.walk reports for the directory at `dir` (a sequence of directory
\* names) below repo_path
RECURSIVE WalkRoot(_, _)
WalkRoot(repo_path, dir) ==
    IF dir = <<>> THEN repo_path
    ELSE PathJoin(WalkRoot(repo_path, SubSeq(dir, 1, Len(dir) - 1)), dir[Len(dir)])

\* any(ignored_dir in root for ignored_dir in IGNORED_DIRS)
SkippedRoot(root) == \E ignored_dir \in IGNORED_DIRS : IsSubstr(ignored_dir, root)

\* get_file_content: the text, or None when the read fails
GetFileContent(f) ==
    IF f.readable THEN [none |-> FALSE, str |-> f.text] ELSE [none |-> TRUE, str |-> <<>>]

\* `not code`: None and "" are both falsy
Falsy(code) == code.none \/ code.str = <<>>

\* code[a:b] for 0 <= a
PySlice(s, a, b) ==
    SubSeq(s, a + 1, IF b < Len(s) THEN b ELSE Len(s))

\* the chunk type SimpleTreeSitterParser.parse gives a node type, "" for none
ChunkType(node_type) ==
    IF node_type \in {"class", "class_declaration", "class_definition"} THEN "class"
    ELSE IF node_type \in {"function", "function_definition", "method", "method_declaration"}
         THEN "method"
    ELSE IF node_type \in {"variable_declaration", "declaration", "let_declaration",
                           "const_declaration"}
         THEN "variable"
    ELSE IF node_type \in {"import_statement", "import"} THEN "import"
    ELSE IF node_type \in {"export_statement", "export"} THEN "export"
    ELSE ""

\* the loop of SimpleTreeSitterParser.parse over root.children
RECURSIVE ParseChildren(_, _)
ParseChildren(code, children) ==
    IF children = <<>> THEN <<>>
    ELSE LET child == Head(children)
             rest  == ParseChildren(code, Tail(children)) IN
         IF ChunkType(child.type) = "" THEN rest
         ELSE << [type       |-> ChunkType(child.type),
                  content    |-> PySlice(code, child.start_byte, child.end_byte),
                  start_line |-> child.start_row + 1,
                  end_line   |-> child.end_row + 1] >> \o rest

\* the whole-file entry {"type": "file", "content": code, "file_path": file_path}
FileChunk(code, file_path) ==
    [type |-> "file", content |-> code, file_path |-> file_path]

\* a mutant of HandleSupported: a parser failure loses the file
HandleSupportedNoFallback(f, file_path) ==
    LET code == GetFileContent(f) IN
    IF Falsy(code) THEN <<>>
    ELSE IF f.parser.kind = "tree"
         THEN ParseChildren(code.str, f.parser.nodes) \o <<FileChunk(code.str, file_path)>>
         ELSE <<>>

\* a mutant of HandleSupported: an empty text is processed like any other
HandleSupportedKeepsEmpty(f, file_path) ==
    LET code == GetFileContent(f) IN
    IF code.none THEN <<>>
    ELSE IF f.parser.kind = "tree"
         THEN ParseChildren(code.str, f.parser.nodes) \o <<FileChunk(code.str, file_path)>>
         ELSE <<FileChunk(code.str, file_path)>>

\* the try block of parse_repo_store_all for one file of a supported extension.
\* f.parser is what tree-sitter does with the file: "init_error" (get_parser
\* fails, ValueError), "parse_error" (ValueError), "other_error" (another
\* exception) or "tree" with the root's children.
HandleSupported(f, file_path) ==
    LET code == GetFileContent(f) IN
    IF Falsy(code) THEN <<>>
    ELSE IF f.parser.kind = "tree"
         THEN ParseChildren(code.str, f.parser.nodes) \o <<FileChunk(code.str, file_path)>>
         ELSE <<FileChunk(code.str, file_path)>>

\* the body of the walk for one file
ProcessFile(repo_path, f) ==
    LET root      == WalkRoot(repo_path, f.dir)
        file_path == PathJoin(root, f.name)
        extension == SplitExt(f.name) IN
    IF SkippedRoot(root) THEN <<>>
    ELSE IF extension \in IGNORED_EXTENSIONS THEN <<>>
    ELSE IF extension \in SUPPORTED_EXTENSIONS THEN HandleSupported(f, file_path)
    ELSE <<>>

RECURSIVE WalkChunks(_, _)
WalkChunks(repo_path, files) ==
    IF files = <<>> THEN <<>>
    ELSE ProcessFile(repo_path, Head(files)) \o WalkChunks(repo_path, Tail(files))

\* parse_repo_store_all(repo_path) over the files below repo_path, in walk order
parse_repo_store_all(repo_path, files) ==
    LET all_chunks == WalkChunks(repo_path, files) IN
    IF all_chunks = <<>>
    THEN [raised |-> TRUE, chunks |-> <<>>]
    ELSE [raised |-> FALSE, chunks |-> all_chunks]

----------------------------------------------------------------------------
(* The world the service runs in *)

MaxSubmits == 3

\* the repo_url values submitted: o/a.git and p/a are different repositories
\* that share their last path segment (p/a holds nothing but an empty file),
\* o/b is a third one
UrlA1 == <<"o", "/", "a", ".", "g", "i", "t">>
UrlA2 == <<"p", "/", "a">>
UrlB == <<"o", "/", "b">>
Urls == {UrlA1, UrlA2, UrlB}

MainPy == <<"m", ".", "p", "y">>
TextA1 == <<"c", "\n", "f">>
TextB == <<"y">>

TreeA1 ==
    [kind |-> "tree",
     nodes |-> << [type |-> "class_definition", start_byte |-> 0, end_byte |-> 1,
                   start_row |-> 0, end_row |-> 0],
                  [type |-> "comment", start_byte |-> 2, end_byte |-> 3,
                   start_row |-> 1, end_row |-> 1] >>]
NoTree == [kind |-> "init_error", nodes |-> <<>>]

\* the files of the repository behind a repo_url, in walk order
Remote(repo_url) ==
    IF repo_url = UrlA1
    THEN << [dir |-> <<>>, name |-> MainPy, readable |-> TRUE, text |-> TextA1,
             parser |-> TreeA1] >>
    ELSE IF repo_url = UrlB
    THEN << [dir |-> <<>>, name |-> MainPy, readable |-> TRUE, text |-> TextB,
             parser |-> NoTree] >>
    ELSE << [dir |-> <<>>, name |-> MainPy, readable |-> TRUE, text |-> <<>>,
             parser |-> NoTree] >>

RepoNames == {RepoName(u) : u \in Urls}
NsNone == <<"n", "o", "n", "e">>
Namespaces == RepoNames \cup {NsNone}

Queries == {"q1"}
Histories ==
    { <<>>,
      << [role |-> "user", content |-> "hi"] >>,
      << [content |-> "no role"] >> }
SubmitFaults == {"none", "clone", "embed", "store"}
QueryFaults == {"none", "embed", "query", "llm"}
LlmAnswers == {"answer1"}
NoContext == "No relevant context found for the query."
TopK == 10

----------------------------------------------------------------------------
(* src/main.py *)

\* a mutant of clone_repository: an existing clone directory is cloned over
clone_repository_Reclone(cl, repo_url, fault) ==
    LET repo_name == RepoName(repo_url)
        repo_path == RepoPath(repo_name) IN
    IF fault # "clone"
    THEN [raised |-> FALSE, repo_path |-> repo_path, clone_from |-> TRUE,
          cloned |-> [cl EXCEPT ![repo_name] = [exists |-> TRUE, files |-> Remote(repo_url)]]]
    ELSE [raised |-> TRUE, repo_path |-> repo_path, clone_from |-> TRUE, cloned |-> cl]

\* clone_repository(repo_url) on the clone directories cl; with fault "clone"
\* Repo.clone_from raises (a failed git clone leaves no directory behind).
\* clone_from tells whether Repo.clone_from was invoked.
clone_repository(cl, repo_url, fault) ==
    LET repo_name == RepoName(repo_url)
        repo_path == RepoPath(repo_name) IN
    IF cl[repo_name].exists
    THEN [raised |-> FALSE, repo_path |-> repo_path, clone_from |-> FALSE, cloned |-> cl]
    ELSE IF fault # "clone"
    THEN [raised |-> FALSE, repo_path |-> repo_path, clone_from |-> TRUE,
          cloned |-> [cl EXCEPT ![repo_name] = [exists |-> TRUE, files |-> Remote(repo_url)]]]
    ELSE [raised |-> TRUE, repo_path |-> repo_path, clone_from |-> TRUE, cloned |-> cl]

\* get_huggingface_embeddings(chunks): one vector per chunk, or an exception
get_huggingface_embeddings(chunks, fault) ==
    [raised |-> fault = "embed", n |-> IF fault = "embed" THEN 0 ELSE Len(chunks)]

\* [Document(page_content=str(chunk), metadata={"repo_url": repo_url}) for chunk in chunks];
\* str(chunk) prints the dictionary, which stands for its own text here
Documents(chunks, repo_url) ==
    [i \in 1..Len(chunks) |->
        [page_content |-> chunks[i], metadata |-> [repo_url |-> repo_url]]]

\* store_embeddings(documents, namespace): PineconeVectorStore.from_documents is
\* given no ids, so every document is written under a fresh id of the namespace
\* (the next unused number stands for the uuid4 drawn)
store_embeddings(idx, documents, namespace) ==
    [idx EXCEPT ![namespace] =
        @ \cup {[id |-> Cardinality(idx[namespace]) + i, text |-> documents[i].page_content,
                 repo_url |-> documents[i].metadata.repo_url] :
                i \in 1..Len(documents)}]

\* a mutant of IndexQuery: the namespace argument is dropped
IndexQueryAnyNs(idx, namespace) ==
    LET all == UNION {idx[ns] : ns \in Namespaces} IN
    IF Cardinality(all) <= TopK THEN {all}
    ELSE {m \in SUBSET all : Cardinality(m) = TopK}

\* pinecone_index.query(vector, top_k=10, include_metadata=True, namespace):
\* the possible match sets, up to top_k vectors of the namespace
IndexQuery(idx, namespace) ==
    IF Cardinality(idx[namespace]) <= TopK THEN {idx[namespace]}
    ELSE {m \in SUBSET idx[namespace] : Cardinality(m) = TopK}

\* the score pinecone gives a stored vector against the query vector: cosine
\* similarity is a function of the two texts; the world fixes one that tells
\* the stored texts of a namespace apart (vectors of equal text score equal)
Similarity(query, text) == Len(text.content)

\* response['matches']: the matches as pinecone lists them, by descending
\* score; vectors of equal score are listed by id
RECURSIVE QueryResponse(_, _)
QueryResponse(matches, query) ==
    IF matches = {} THEN <<>>
    ELSE LET first == CHOOSE m \in matches : \A o \in matches :
                        \/ Similarity(query, m.text) > Similarity(query, o.text)
                        \/ /\ Similarity(query, m.text) = Similarity(query, o.text)
                           /\ m.id <= o.id
         IN  << [id |-> first.id, score |-> Similarity(query, first.text),
                 metadata |-> [text |-> first.text, repo_url |-> first.repo_url]] >>
             \o QueryResponse(matches \ {first}, query)

\* contexts = [match['metadata'].get('text', '') for match in response['matches']]
Contexts(response) == [i \in 1..Len(response) |-> response[i].metadata.text]

\* "<CONTEXT>\n" + "\n\n-------\n\n".join(contexts) + "\n-------\n</CONTEXT>\n\n" + query,
\* kept as the parts of the concatenation
Prompt(contexts, query) ==
    [open |-> "<CONTEXT>\n", contexts |-> contexts, separator |-> "\n\n-------\n\n",
     close |-> "\n-------\n</CONTEXT>\n\n", question |-> query]

\* a mutant of perform_rag: the language model is asked even without matches
perform_rag_NoShortCircuit(query, namespace, fault, matches, llm) ==
    IF fault = "embed"
    THEN [raised |-> TRUE, answer |-> "", calls |-> << [op |-> "embed", ok |-> FALSE, text |-> query] >>]
    ELSE IF fault = "query"
    THEN [raised |-> TRUE, answer |-> "",
          calls |-> << [op |-> "embed", ok |-> TRUE, text |-> query],
                       [op |-> "query", ok |-> FALSE, namespace |-> namespace, matches |-> {},
                        response |-> <<>>] >>]
    ELSE [raised |-> fault = "llm", answer |-> IF fault = "llm" THEN "" ELSE llm,
          calls |-> << [op |-> "embed", ok |-> TRUE, text |-> query],
                       [op |-> "query", ok |-> TRUE, namespace |-> namespace, matches |-> matches,
                        response |-> QueryResponse(matches, query)],
                       [op |-> "llm", ok |-> fault # "llm",
                        prompt |-> Prompt(Contexts(QueryResponse(matches, query)), query)] >>]

\* a mutant of perform_rag: after a failed index query the language model is
\* still asked, on no context
perform_rag_ContinuesAfterFailure(query, namespace, fault, matches, llm) ==
    IF fault = "embed"
    THEN [raised |-> TRUE, answer |-> "", calls |-> << [op |-> "embed", ok |-> FALSE, text |-> query] >>]
    ELSE IF fault = "query"
    THEN [raised |-> FALSE, answer |-> llm,
          calls |-> << [op |-> "embed", ok |-> TRUE, text |-> query],
                       [op |-> "query", ok |-> FALSE, namespace |-> namespace, matches |-> {},
                        response |-> <<>>],
                       [op |-> "llm", ok |-> TRUE, prompt |-> Prompt(<<>>, query)] >>]
    ELSE IF matches = {}
    THEN [raised |-> FALSE, answer |-> NoContext,
          calls |-> << [op |-> "embed", ok |-> TRUE, text |-> query],
                       [op |-> "query", ok |-> TRUE, namespace |-> namespace, matches |-> matches,
                        response |-> QueryResponse(matches, query)] >>]
    ELSE [raised |-> fault = "llm", answer |-> IF fault = "llm" THEN "" ELSE llm,
          calls |-> << [op |-> "embed", ok |-> TRUE, text |-> query],
                       [op |-> "query", ok |-> TRUE, namespace |-> namespace, matches |-> matches,
                        response |-> QueryResponse(matches, query)],
                       [op |-> "llm", ok |-> fault # "llm",
                        prompt |-> Prompt(Contexts(QueryResponse(matches, query)), query)] >>]

\* perform_rag(query, namespace).  fault: the external call that raises, if it
\* is reached ("embed", "query", "llm"); matches: what the index query returns;
\* llm: the completion.  calls lists the external calls made, in order.
perform_rag(query, namespace, fault, matches, llm) ==
    IF fault = "embed"
    THEN [raised |-> TRUE, answer |-> "", calls |-> << [op |-> "embed", ok |-> FALSE, text |-> query] >>]
    ELSE IF fault = "query"
    THEN [raised |-> TRUE, answer |-> "",
          calls |-> << [op |-> "embed", ok |-> TRUE, text |-> query],
                       [op |-> "query", ok |-> FALSE, namespace |-> namespace, matches |-> {},
                        response |-> <<>>] >>]
    ELSE IF matches = {}
    THEN [raised |-> FALSE, answer |-> NoContext,
          calls |-> << [op |-> "embed", ok |-> TRUE, text |-> query],
                       [op |-> "query", ok |-> TRUE, namespace |-> namespace, matches |-> matches,
                        response |-> QueryResponse(matches, query)] >>]
    ELSE [raised |-> fault = "llm", answer |-> IF fault = "llm" THEN "" ELSE llm,
          calls |-> << [op |-> "embed", ok |-> TRUE, text |-> query],
                       [op |-> "query", ok |-> TRUE, namespace |-> namespace, matches |-> matches,
                        response |-> QueryResponse(matches, query)],
                       [op |-> "llm", ok |-> fault # "llm",
                        prompt |-> Prompt(Contexts(QueryResponse(matches, query)), query)] >>]

\* "\n".join([f"{entry['role']}: {entry['content']}" for entry in request.history]),
\* as the sequence of its lines; a KeyError when an entry lacks a key
HistoryOk(history) ==
    \A i \in 1..Len(history) : {"role", "content"} \subseteq DOMAIN history[i]

HistoryLines(history) ==
    [i \in 1..Len(history) |-> <<history[i].role, ": ", history[i].content>>]

\* f"History:\n{history_context}\n\nQuery:\n{query}" if history_context else query
AugmentedQuery(history, query) ==
    IF HistoryLines(history) = <<>> THEN <<query>>
    ELSE <<"History:\n", HistoryLines(history), "\n\nQuery:\n", query>>

\* a mutant of query_codebase: a failure is answered as if nothing was found
query_codebase_ErrorAsEmpty(namespace, query, history, fault, matches, llm) ==
    IF ~HistoryOk(history)
    THEN [kind |-> "query", namespace |-> namespace, query |-> query, status |-> 200, answer |-> NoContext,
          calls |-> <<>>]
    ELSE LET r == perform_rag(AugmentedQuery(history, query), namespace,
                              fault, matches, llm) IN
         [kind |-> "query", namespace |-> namespace, query |-> query, status |-> 200,
          answer |-> IF r.raised THEN NoContext ELSE r.answer, calls |-> r.calls]

\* POST /query: query_codebase, the response with the external calls it made
query_codebase(namespace, query, history, fault, matches, llm) ==
    IF ~HistoryOk(history)
    THEN [kind |-> "query", namespace |-> namespace, query |-> query, status |-> 500, answer |-> "",
          calls |-> <<>>]
    ELSE LET r == perform_rag(AugmentedQuery(history, query), namespace,
                              fault, matches, llm) IN
         [kind |-> "query", namespace |-> namespace, query |-> query,
          status |-> IF r.raised THEN 500 ELSE 200,
          answer |-> r.answer, calls |-> r.calls]

\* str(e) of an HTTPException that `except Exception as e` caught: Starlette
\* prints "status_code: detail" where its HTTPException defines __str__, and
\* the exception has no arguments to print where it does not
HTTPExceptionStr(status_code, detail, has_str) ==
    IF has_str THEN ToString(status_code) \o ": " \o detail ELSE ""

\* a mutant of submit_repo: the documents are stored before the embeddings of
\* the chunks are generated
submit_repo_StoresBeforeEmbedding(cl, idx, repo_url, fault, has_str) ==
    LET namespace == RepoName(repo_url)
        c == clone_repository(cl, repo_url, fault)
        p == parse_repo_store_all(c.repo_path, c.cloned[RepoName(repo_url)].files)
        e == get_huggingface_embeddings(p.chunks, fault)
        documents == Documents(p.chunks, repo_url)
        fail(detail, calls) ==
            [status |-> 500, detail |-> detail, calls |-> calls, cloned |-> c.cloned,
             index |-> idx, clone_from |-> c.clone_from,
             repo_path |-> c.repo_path]
    IN
    IF c.raised
    THEN fail(HTTPExceptionStr(500, "Failed to clone repository.", has_str), <<"clone">>)
    ELSE IF p.raised
    THEN fail("No valid code chunks found in the repository.", <<"clone", "parse">>)
    ELSE IF p.chunks = <<>>
    THEN fail(HTTPExceptionStr(400, "No valid code chunks found.", has_str),
              <<"clone", "parse">>)
    ELSE IF fault = "store" THEN fail("store failed", <<"clone", "parse", "store">>)
    ELSE [status |-> IF e.raised THEN 500 ELSE 200,
          detail |-> IF e.raised THEN "embedding failed"
                     ELSE "Repository processed successfully.",
          calls |-> <<"clone", "parse", "store", "embed">>, cloned |-> c.cloned,
          index |-> store_embeddings(idx, documents, namespace),
          clone_from |-> c.clone_from,
          repo_path |-> c.repo_path]

\* POST /submit-repo: submit_repo on the clone directories cl and the index idx;
\* the response and the state it leaves.  has_str: whether the installed
\* Starlette gives HTTPException a __str__.  Every exception of the try block,
\* the HTTPExceptions included, is answered 500 with detail str(e).
submit_repo(cl, idx, repo_url, fault, has_str) ==
    LET namespace == RepoName(repo_url)
        c == clone_repository(cl, repo_url, fault)
        p == parse_repo_store_all(c.repo_path, c.cloned[RepoName(repo_url)].files)
        e == get_huggingface_embeddings(p.chunks, fault)
        documents == Documents(p.chunks, repo_url)
        fail(detail, calls) ==
            [status |-> 500, detail |-> detail, calls |-> calls, cloned |-> c.cloned,
             index |-> idx, clone_from |-> c.clone_from,
             repo_path |-> c.repo_path]
    IN
    IF c.raised
    THEN fail(HTTPExceptionStr(500, "Failed to clone repository.", has_str), <<"clone">>)
    ELSE IF p.raised
    THEN fail("No valid code chunks found in the repository.", <<"clone", "parse">>)
    ELSE IF p.chunks = <<>>
    THEN fail(HTTPExceptionStr(400, "No valid code chunks found.", has_str),
              <<"clone", "parse">>)
    ELSE IF e.raised THEN fail("embedding failed", <<"clone", "parse", "embed">>)
    ELSE IF fault = "store" THEN fail("store failed", <<"clone", "parse", "embed", "store">>)
    ELSE [status |-> 200, detail |-> "Repository processed successfully.",
          calls |-> <<"clone", "parse", "embed", "store">>, cloned |-> c.cloned,
          index |-> store_embeddings(idx, documents, namespace),
          clone_from |-> c.clone_from,
          repo_path |-> c.repo_path]

\* GET /namespaces: the namespaces describe_index_stats reports, those that hold vectors
list_namespaces(idx, statsOk) ==
    IF statsOk
    THEN [kind |-> "namespaces", status |-> 200, namespaces |-> {ns \in Namespaces : idx[ns] # {}}]
    ELSE [kind |-> "namespaces", status |-> 500, namespaces |-> {}]

----------------------------------------------------------------------------
(* Spec: the service *)

NoTreeOnDisk == [name |-> <<>>, files |-> <<>>]
NoScan == [done |-> FALSE, raised |-> FALSE, chunks |-> <<>>]
NoNs == [done |-> FALSE, ns |-> <<>>, path |-> <<>>]
NoEmbed == [done |-> FALSE, raised |-> FALSE, embeddings |-> <<>>]
NoSource == [code |-> <<>>, children |-> <<>>]
NoParse == [done |-> FALSE, chunks |-> <<>>]

Init ==
    /\ url = <<>>
    /\ nsOut = NoNs
    /\ tree = NoTreeOnDisk
    /\ scanOut = NoScan
    /\ cloned = [n \in RepoNames |-> [exists |-> FALSE, files |-> <<>>]]
    /\ index = [ns \in Namespaces |-> {}]
    /\ cloneCalls = [n \in RepoNames |-> [invoked |-> 0, succeeded |-> 0]]
    /\ nSubmits = 0
    /\ resp = [kind |-> "none"]
    /\ batch = <<>>
    /\ embedOut = NoEmbed
    /\ source = NoSource
    /\ parseOut = NoParse

SubmitRepo ==
    /\ nSubmits < MaxSubmits
    /\ \E repo_url \in Urls, fault \in SubmitFaults :
      \* str(e) of an HTTPException is read only where one is raised in the try
      \E has_str \in IF fault = "clone" THEN BOOLEAN ELSE {TRUE} :
        LET r == submit_repo(cloned, index, repo_url, fault, has_str)
            n == RepoName(repo_url) IN
        /\ cloned' = r.cloned
        /\ index' = r.index
        /\ cloneCalls' =
              IF r.clone_from
              THEN [cloneCalls EXCEPT
                      ![n] = [invoked |-> @.invoked + 1,
                              succeeded |-> @.succeeded +
                                  (IF r.cloned[n].exists /\ ~cloned[n].exists THEN 1 ELSE 0)]]
              ELSE cloneCalls
        /\ resp' = [kind |-> "submit", url |-> repo_url, status |-> r.status,
                    detail |-> r.detail, calls |-> r.calls, existed |-> cloned[n].exists,
                    clone_from |-> r.clone_from, repo_path |-> r.repo_path]
    /\ nSubmits' = nSubmits + 1
    /\ UNCHANGED <<batch, embedOut, source, parseOut, url, nsOut, tree, scanOut>>

QueryCodebase ==
    /\ \E namespace \in Namespaces, query \in Queries, history \in Histories,
          fault \in QueryFaults, llm \in LlmAnswers :
        \E matches \in IndexQuery(index, namespace) :
            resp' = query_codebase(namespace, query, history, fault, matches, llm)
    /\ UNCHANGED <<batch, embedOut, source, parseOut, url, nsOut, tree, scanOut, cloned, index, cloneCalls, nSubmits>>

ListNamespaces ==
    /\ \E statsOk \in BOOLEAN : resp' = list_namespaces(index, statsOk)
    /\ UNCHANGED <<batch, embedOut, source, parseOut, url, nsOut, tree, scanOut, cloned, index, cloneCalls, nSubmits>>

Next == SubmitRepo \/ QueryCodebase \/ ListNamespaces

Spec == Init /\ [][Next]_vars

----------------------------------------------------------------------------
(* SpecNs: the namespace and the clone path of a repo_url *)

MaxUrlLen == 5
UrlChars == {"/", ".", "g", "i", "t", "a"}

\* https://github.com/org/sample.git
SampleUrl ==
    <<"h", "t", "t", "p", "s", ":", "/", "/", "g", "i", "t", "h", "u", "b", ".", "c", "o", "m",
      "/", "o", "r", "g", "/", "s", "a", "m", "p", "l", "e", ".", "g", "i", "t">>
Sample == <<"s", "a", "m", "p", "l", "e">>

\* https://github.com/org/org.github.io
PagesUrl ==
    <<"h", "t", "t", "p", "s", ":", "/", "/", "g", "i", "t", "h", "u", "b", ".", "c", "o", "m",
      "/", "o", "r", "g", "/", "o", "r", "g", ".", "g", "i", "t", "h", "u", "b", ".", "i", "o">>

UrlInputs == UNION {[1..n -> UrlChars] : n \in 0..MaxUrlLen} \cup {SampleUrl, PagesUrl}

InitNs ==
    /\ url \in UrlInputs
    /\ nsOut = NoNs
    /\ tree = NoTreeOnDisk
    /\ scanOut = NoScan
    /\ cloned = [n \in RepoNames |-> [exists |-> FALSE, files |-> <<>>]]
    /\ index = [ns \in Namespaces |-> {}]
    /\ cloneCalls = [n \in RepoNames |-> [invoked |-> 0, succeeded |-> 0]]
    /\ nSubmits = 0
    /\ resp = [kind |-> "none"]
    /\ batch = <<>>
    /\ embedOut = NoEmbed
    /\ source = NoSource
    /\ parseOut = NoParse

\* the first lines of submit_repo and of clone_repository
DeriveNamespace ==
    /\ ~nsOut.done
    /\ nsOut' = [done |-> TRUE, ns |-> RepoName(url), path |-> RepoPath(RepoName(url))]
    /\ UNCHANGED <<batch, embedOut, source, parseOut, url, tree, scanOut, cloned, index, cloneCalls, nSubmits, resp>>

NextNs == DeriveNamespace

SpecNs == InitNs /\ [][NextNs]_vars

----------------------------------------------------------------------------
(* SpecScan: parse_repo_store_all on a cloned repository *)

MaxFiles == 2

DirSrc == <<"s", "r", "c">>
DirBuild == <<"b", "u", "i", "l", "d">>
DirBuilder == <<"b", "u", "i", "l", "d", "e", "r">>
ScanDirs == { <<>>, <<DirSrc>>, <<DirBuilder>>, <<DirBuild, DirSrc>> }

ReadmeMd == <<"r", ".", "m", "d">>
MainGo == <<"x", ".", "g", "o">>
ScanRepoNames == { <<"a">>, <<"e", "n", "v", "s">> }

ErrorOutcomes ==
    { [kind |-> k, nodes |-> <<>>] : k \in {"init_error", "parse_error", "other_error"} }
TreeNothing ==
    [kind |-> "tree",
     nodes |-> << [type |-> "comment", start_byte |-> 0, end_byte |-> 1,
                   start_row |-> 0, end_row |-> 0] >>]
ParserOutcomes == ErrorOutcomes \cup {TreeNothing, TreeA1}

ScanFiles ==
    { [dir |-> d, name |-> MainPy, readable |-> TRUE, text |-> TextA1, parser |-> p] :
        d \in ScanDirs, p \in ParserOutcomes }
    \cup { [dir |-> d, name |-> MainPy, readable |-> r, text |-> <<>>, parser |-> NoTree] :
        d \in ScanDirs, r \in BOOLEAN }
    \cup { [dir |-> d, name |-> n, readable |-> TRUE, text |-> TextB, parser |-> NoTree] :
        d \in ScanDirs, n \in {ReadmeMd, MainGo} }

\* the files of a directory tree: no two at the same path
FileSeqs ==
    { fs \in UNION {[1..n -> ScanFiles] : n \in 0..MaxFiles} :
        \A i, j \in 1..Len(fs) :
            (fs[i].dir = fs[j].dir /\ fs[i].name = fs[j].name) => i = j }

InitScan ==
    /\ url = <<>>
    /\ nsOut = NoNs
    /\ tree \in [name : ScanRepoNames, files : FileSeqs]
    /\ scanOut = NoScan
    /\ cloned = [n \in RepoNames |-> [exists |-> FALSE, files |-> <<>>]]
    /\ index = [ns \in Namespaces |-> {}]
    /\ cloneCalls = [n \in RepoNames |-> [invoked |-> 0, succeeded |-> 0]]
    /\ nSubmits = 0
    /\ resp = [kind |-> "none"]
    /\ batch = <<>>
    /\ embedOut = NoEmbed
    /\ source = NoSource
    /\ parseOut = NoParse

ScanRepo ==
    /\ ~scanOut.done
    /\ LET r == parse_repo_store_all(RepoPath(tree.name), tree.files) IN
       scanOut' = [done |-> TRUE, raised |-> r.raised, chunks |-> r.chunks]
    /\ UNCHANGED <<batch, embedOut, source, parseOut, url, nsOut, tree, cloned, index, cloneCalls, nSubmits, resp>>

NextScan == ScanRepo

SpecScan == InitScan /\ [][NextScan]_vars

----------------------------------------------------------------------------
(* Properties of the query path (Spec) *)

QueryCalls == {i \in 1..Len(resp.calls) : resp.calls[i].op = "query"}
FailedCalls == {i \in 1..Len(resp.calls) : ~resp.calls[i].ok}
LlmCalls == {i \in 1..Len(resp.calls) : resp.calls[i].op = "llm"}
EmptyRetrieval ==
    \E i \in QueryCalls : resp.calls[i].ok /\ resp.calls[i].matches = {}

\* C1: when the index query of a request returns no matches, the answer is the
\* canned "No relevant context found for the query." and the language model is
\* not called during that request.
C1_EmptyRetrievalShortCircuits ==
    (resp.kind = "query" /\ EmptyRetrieval) =>
        /\ resp.status = 200
        /\ resp.answer = NoContext
        /\ LlmCalls = {}

\* C1 witness: a query whose retrieval came back empty while another namespace
\* holds vectors, answered with the canned text
C1_Witness ==
    /\ resp.kind = "query"
    /\ EmptyRetrieval
    /\ resp.answer = NoContext
    /\ \E ns \in Namespaces : index[ns] # {}

\* C2: a failure of the query embedding, of the index query or of the
\* language-model call is answered with an error response; the canned answer
\* is given only after an index query that succeeded and returned no match.
C2_FailuresAreErrors ==
    resp.kind = "query" =>
        /\ (FailedCalls # {} => resp.status = 500)
        /\ (resp.status = 200 /\ resp.answer = NoContext) =>
               (EmptyRetrieval /\ FailedCalls = {})

\* C2 witness: a request whose language-model call failed after a non-empty
\* retrieval and that ended in an error response
C2_Witness ==
    /\ resp.kind = "query"
    /\ \E i \in LlmCalls : ~resp.calls[i].ok
    /\ \E i \in QueryCalls : resp.calls[i].matches # {}
    /\ resp.status = 500

\* C3: a query for namespace A reads namespace A only: what it retrieves was
\* stored under A and under no other namespace, it retrieves nothing while A is
\* empty, and every stored vector lies in the namespace of its submission.
C3_NamespaceIsolation ==
    /\ \A ns \in Namespaces : \A v \in index[ns] : RepoName(v.repo_url) = ns
    /\ resp.kind = "query" =>
        \A i \in QueryCalls :
            /\ resp.calls[i].namespace = resp.namespace
            /\ resp.calls[i].matches \subseteq index[resp.namespace]
            /\ \A other \in Namespaces \ {resp.namespace} :
                   resp.calls[i].matches \cap index[other] = {}
            /\ index[resp.namespace] = {} => resp.calls[i].matches = {}

\* C3 witness: a successful query of an empty namespace while only another
\* namespace is populated, which retrieved nothing
C3_Witness ==
    /\ resp.kind = "query"
    /\ resp.status = 200
    /\ index[resp.namespace] = {}
    /\ \E other \in Namespaces \ {resp.namespace} : index[other] # {}
    /\ \E i \in QueryCalls : resp.calls[i].ok /\ resp.calls[i].matches = {}

----------------------------------------------------------------------------
(* Properties of the ingestion path (Spec) *)

\* the chunks parse_repo_store_all yields on a clone of the repository at repo_url
RepoChunks(repo_url) ==
    LET r == parse_repo_store_all(RepoPath(RepoName(repo_url)), Remote(repo_url)) IN
    {r.chunks[i] : i \in 1..Len(r.chunks)}

\* C4: submissions of different repositories use distinct namespaces and clone
\* directories: a namespace holds the vectors of one repo_url only, and each
\* vector is a chunk of the repository its repo_url names.
C4_DistinctReposDoNotInterfere ==
    \A ns \in Namespaces : \A v \in index[ns] :
        /\ \A w \in index[ns] : w.repo_url = v.repo_url
        /\ v.text \in RepoChunks(v.repo_url)

\* a step that is a successful submit-repo of repo_url
SubmittedOk(repo_url) ==
    /\ nSubmits' = nSubmits + 1
    /\ resp'.kind = "submit"
    /\ resp'.url = repo_url
    /\ resp'.status = 200

\* C6: a successful re-submission of a repository that is already indexed
\* leaves the number of vectors in its namespace as it was.
C6_ResubmitKeepsVectorCount ==
    [][\A u \in Urls :
          (SubmittedOk(u) /\ \E v \in index[RepoName(u)] : v.repo_url = u) =>
              Cardinality(index'[RepoName(u)]) = Cardinality(index[RepoName(u)])]_vars

\* C7 as stated: Repo.clone_from is invoked at most once per repository name.
C7_CloneInvokedAtMostOnce ==
    \A n \in RepoNames : cloneCalls[n].invoked <= 1

\* C7, amended: a submission (or a clone_repo call) that finds the clone
\* directory does not invoke Repo.clone_from and gets the directory's path; at
\* most one clone per repository name succeeds, and a directory exists exactly
\* after it.
C7_ExistingCloneIsReused ==
    /\ (resp.kind = "submit" /\ resp.existed) =>
           /\ ~resp.clone_from
           /\ resp.repo_path = RepoPath(RepoName(resp.url))
           /\ ~(resp.status = 500 /\ resp.calls = <<"clone">>)
    /\ (resp.kind = "clone_repo" /\ resp.existed) =>
           /\ ~resp.clone_from
           /\ resp.repo_path = RepoPath(RepoName(resp.url))
           /\ resp.result = "already_cloned"
    /\ \A n \in RepoNames :
           /\ cloneCalls[n].succeeded <= 1
           /\ cloned[n].exists <=> cloneCalls[n].succeeded = 1

\* C7 witness: a submission served from a clone directory that an earlier
\* submission created
C7_Witness ==
    /\ resp.kind = "submit"
    /\ resp.existed
    /\ ~resp.clone_from
    /\ resp.status = 200
    /\ cloneCalls[RepoName(resp.url)].succeeded = 1

----------------------------------------------------------------------------
(* Properties of the namespace derivation (SpecNs) *)

\* s without one trailing ".git"
StripTrailingGit(s) ==
    IF EndsWith(s, DotGit) THEN SubSeq(s, 1, Len(s) - Len(DotGit)) ELSE s

\* C5: the namespace of a repo_url is its last path segment with only a
\* trailing ".git" removed: for every URL whose last segment names something,
\* a non-empty token without a path separator, "sample" for
\* https://github.com/org/sample.git.
C5_NamespaceIsLastSegmentSansGit ==
    (nsOut.done /\ StripTrailingGit(LastSegment(url)) # <<>>) =>
        /\ nsOut.ns # <<>>
        /\ \A i \in 1..Len(nsOut.ns) : nsOut.ns[i] # "/"
        /\ nsOut.ns = StripTrailingGit(LastSegment(url))
        /\ url = SampleUrl => nsOut.ns = Sample

----------------------------------------------------------------------------
(* Properties of the scanner and the chunker (SpecScan) *)

FileRoot(f) == WalkRoot(RepoPath(tree.name), f.dir)
FilePath(f) == PathJoin(FileRoot(f), f.name)
Files == {tree.files[i] : i \in 1..Len(tree.files)}
Chunks == {scanOut.chunks[i] : i \in 1..Len(scanOut.chunks)}
WholeFileChunk(f) == [type |-> "file", content |-> f.text, file_path |-> FilePath(f)]

\* a readable, non-empty file of a supported extension
Eligible(f) ==
    /\ f.readable
    /\ f.text # <<>>
    /\ SplitExt(f.name) \in SUPPORTED_EXTENSIONS

\* an empty file of a supported extension
EmptySource(f) ==
    /\ f.readable
    /\ f.text = <<>>
    /\ SplitExt(f.name) \in SUPPORTED_EXTENSIONS

\* C8 as stated: every readable, non-empty file of a supported extension
\* contributes the "file" chunk holding its full text, whatever the parser does
\* with it, and parse_repo_store_all does not abort.
C8_EveryFileGetsWholeFileChunk ==
    scanOut.done =>
        \A f \in Files :
            Eligible(f) =>
                /\ ~scanOut.raised
                /\ WholeFileChunk(f) \in Chunks

\* C8, amended: every readable, non-empty file of a supported extension that
\* the scanner does not skip for its directory contributes the "file" chunk
\* holding its full text, whatever the parser does with it (a tree, a tree
\* without recognised nodes, a parse failure, a failed initialisation), and
\* parse_repo_store_all returns; a file in a skipped directory contributes no
\* "file" chunk.
C8_WholeFileChunkAlways ==
    scanOut.done =>
        \A f \in Files :
            /\ (Eligible(f) /\ ~SkippedRoot(FileRoot(f))) =>
                   /\ ~scanOut.raised
                   /\ WholeFileChunk(f) \in Chunks
            /\ SkippedRoot(FileRoot(f)) =>
                   \A c \in Chunks : c.type = "file" => c.file_path # FilePath(f)

\* C8 witness: a scan of a repository in which the parser could not be
\* initialised for one file and failed on another, both present as "file" chunks
C8_Witness ==
    /\ scanOut.done
    /\ ~scanOut.raised
    /\ \E f, g \in Files :
        /\ Eligible(f) /\ f.parser.kind = "init_error" /\ WholeFileChunk(f) \in Chunks
        /\ Eligible(g) /\ g.parser.kind = "parse_error" /\ WholeFileChunk(g) \in Chunks

\* the directory names on the path of a file: the clone directory's and those below it
DirComponents(f) == {tree.name} \cup {f.dir[i] : i \in 1..Len(f.dir)}

\* C9: the files processed are exactly those of a supported extension whose
\* path has no directory named in IGNORED_DIRS: each such readable, non-empty
\* file yields its "file" chunk, and no other file does.
C9_SkippedOnlyUnderIgnoredDirs ==
    scanOut.done =>
        \A f \in Files :
            (Eligible(f) /\ DirComponents(f) \cap IGNORED_DIRS = {})
                <=> WholeFileChunk(f) \in Chunks

\* C10 as stated: a repository with an empty source file never makes
\* parse_repo_store_all raise.
C10_EmptyFileNeverRaises ==
    (scanOut.done /\ \E f \in Files : EmptySource(f) /\ ~SkippedRoot(FileRoot(f))) =>
        ~scanOut.raised

\* the files without the empty ones
RECURSIVE WithoutEmpty(_)
WithoutEmpty(files) ==
    IF files = <<>> THEN <<>>
    ELSE IF EmptySource(Head(files)) THEN WithoutEmpty(Tail(files))
    ELSE <<Head(files)>> \o WithoutEmpty(Tail(files))

\* C10, amended: an empty source file contributes zero chunks (the chunks are
\* those of the repository without its empty files, none has an empty text),
\* and parse_repo_store_all raises exactly when no file at all contributes a
\* chunk: beside a file that contributes one, an empty file raises nothing.
C10_EmptyFileContributesNothing ==
    scanOut.done =>
        /\ \A c \in Chunks : c.type = "file" => c.content # <<>>
        /\ \A f \in Files : EmptySource(f) =>
               \A c \in Chunks : c.type = "file" => c.file_path # FilePath(f)
        /\ scanOut.chunks = WalkChunks(RepoPath(tree.name), WithoutEmpty(tree.files))
        /\ scanOut.raised <=>
               ~\E f \in Files : Eligible(f) /\ ~SkippedRoot(FileRoot(f))

\* C10 witness: a scan that returned for a repository holding an empty source
\* file beside a file that contributes chunks
C10_Witness ==
    /\ scanOut.done
    /\ ~scanOut.raised
    /\ \E f, g \in Files :
        /\ EmptySource(f) /\ ~SkippedRoot(FileRoot(f))
        /\ Eligible(g) /\ WholeFileChunk(g) \in Chunks

----------------------------------------------------------------------------
(* Properties of the query path, continued (Spec) *)

EmbedCalls == {i \in 1..Len(resp.calls) : resp.calls[i].op = "embed"}

\* C11: the text that is embedded for retrieval is the latest user message
\* (request.query) alone, whatever history the request carries.
C11_RetrievalUsesQueryOnly ==
    resp.kind = "query" =>
        \A i \in EmbedCalls : resp.calls[i].text = <<resp.query>>

LlmCall == resp.calls[Len(resp.calls)]

\* C13: when the index query returns several matches with identical content,
\* the context given to the language model holds that content once, and the
\* distinct contents stand in descending-score order between the markers.
C13_ContextHoldsEachContentOnce ==
    (resp.kind = "query" /\ LlmCalls # {}) =>
        LET contexts == LlmCall.prompt.contexts
            response == resp.calls[2].response
            Best(text) == CHOOSE k \in 1..Len(response) :
                              /\ response[k].metadata.text = text
                              /\ \A j \in 1..Len(response) :
                                     response[j].metadata.text = text =>
                                         response[j].score <= response[k].score
        IN  /\ LlmCall.prompt.open = "<CONTEXT>\n"
            /\ LlmCall.prompt.close = "\n-------\n</CONTEXT>\n\n"
            /\ {contexts[i] : i \in 1..Len(contexts)}
                   = {response[k].metadata.text : k \in 1..Len(response)}
            /\ \A i, j \in 1..Len(contexts) : i < j => contexts[i] # contexts[j]
            /\ \A i, j \in 1..Len(contexts) :
                   i < j => response[Best(contexts[i])].score
                                >= response[Best(contexts[j])].score

QuerySteps == <<"embed", "query", "llm">>

\* C16: a query makes its external calls in the order embed, index query,
\* language model, each at most once; the language model is called only after
\* an index query that returned matches; a call that fails is the last call
\* of the request, which then ends in an error.
C16_QueryStepsInOrder ==
    resp.kind = "query" =>
        /\ Len(resp.calls) <= Len(QuerySteps)
        /\ \A i \in 1..Len(resp.calls) : resp.calls[i].op = QuerySteps[i]
        /\ LlmCalls # {} => (resp.calls[2].ok /\ resp.calls[2].matches # {})
        /\ \A i \in FailedCalls : i = Len(resp.calls) /\ resp.status = 500
        /\ resp.status = 200 => FailedCalls = {}

C16_Witness ==
    /\ resp.kind = "query"
    /\ resp.status = 200
    /\ Len(resp.calls) = 3
    /\ \A i \in 1..3 : resp.calls[i].ok /\ resp.calls[i].op = QuerySteps[i]

SubmitSteps == <<"clone", "parse", "embed", "store">>

\* C17: a submission writes to the index only after cloning, chunking and
\* embedding succeeded, in that order; a submission in which one of them
\* fails ends in an error response and leaves every namespace as it was.
C17_StoreOnlyAfterAllSucceeded ==
    [][(resp'.kind = "submit" /\ nSubmits' = nSubmits + 1) =>
          /\ Len(resp'.calls) <= Len(SubmitSteps)
          /\ \A i \in 1..Len(resp'.calls) : resp'.calls[i] = SubmitSteps[i]
          /\ index' # index => (resp'.calls = SubmitSteps /\ resp'.status = 200)
          /\ Len(resp'.calls) < Len(SubmitSteps) =>
                 (resp'.status # 200 /\ index' = index)
          /\ resp'.status # 200 => index' = index]_vars

C17_Witness ==
    /\ resp.kind = "submit"
    /\ resp.status = 500
    /\ resp.calls = <<"clone", "parse", "embed">>
    /\ \E ns \in Namespaces : index[ns] # {}

----------------------------------------------------------------------------
(* src/backend/api/embeddings.py: generate_embedding (SpecEmbed) *)

MaxBatch == 3

\* Python's None, as a dict value
PyNone == [none |-> TRUE]

\* chunk.get(key): the value, or None when the key is absent
DictGet(chunk, key) ==
    IF key \in DOMAIN chunk THEN [none |-> FALSE, value |-> chunk[key]] ELSE PyNone

\* model.encode(text): the vector of a text, a function of the text alone
Encode(text) == [vector_of |-> text]

\* the body of the loop for one chunk: chunk["content"], chunk["type"] and
\* chunk["path"] raise KeyError when the key is absent
EmbedOne(chunk) ==
    IF ~({"content", "type", "path"} \subseteq DOMAIN chunk)
    THEN [raised |-> TRUE]
    ELSE [raised |-> FALSE,
          record |-> [embedding |-> Encode(chunk.content),
                      metadata |-> [type |-> chunk.type,
                                    name |-> DictGet(chunk, "name"),
                                    path |-> chunk.path,
                                    start_line |-> DictGet(chunk, "start_line"),
                                    end_line |-> DictGet(chunk, "end_line")]]]

RECURSIVE EmbedLoop(_, _)
EmbedLoop(chunks, embeddings) ==
    IF chunks = <<>> THEN [raised |-> FALSE, embeddings |-> embeddings]
    ELSE LET one == EmbedOne(Head(chunks))
         IN  IF one.raised
             THEN [raised |-> TRUE, embeddings |-> <<>>]
             ELSE EmbedLoop(Tail(chunks), Append(embeddings, one.record))

generate_embedding(chunks) == EmbedLoop(chunks, <<>>)

\* the chunk dictionaries a caller can hand over: one carrying every key the
\* loop reads, the two shapes SimpleTreeSitterParser and the file fallback
\* produce (neither has a "path" key), and one without "content"
ChunkWithPath ==
    [type |-> "method", content |-> <<"f">>, name |-> "f", path |-> MainPy,
     start_line |-> 1, end_line |-> 1]
ChunkWithPathOnly == [type |-> "file", content |-> <<"c">>, path |-> MainPy]
ChunkFromParser == [type |-> "class", content |-> <<"c">>, start_line |-> 1, end_line |-> 1]
ChunkFromFile == FileChunk(TextA1, MainPy)
ChunkNoContent == [type |-> "method", path |-> MainPy]
ChunkShapes ==
    {ChunkWithPath, ChunkWithPathOnly, ChunkFromParser, ChunkFromFile, ChunkNoContent}

Batches == UNION { [1..n -> ChunkShapes] : n \in 0..MaxBatch }

InitEmbed ==
    /\ batch \in Batches
    /\ embedOut = NoEmbed
    /\ source = NoSource
    /\ parseOut = NoParse
    /\ url = <<>>
    /\ nsOut = NoNs
    /\ tree = NoTreeOnDisk
    /\ scanOut = NoScan
    /\ cloned = [n \in RepoNames |-> [exists |-> FALSE, files |-> <<>>]]
    /\ index = [ns \in Namespaces |-> {}]
    /\ cloneCalls = [n \in RepoNames |-> [invoked |-> 0, succeeded |-> 0]]
    /\ nSubmits = 0
    /\ resp = [kind |-> "none"]

GenerateEmbedding ==
    /\ ~embedOut.done
    /\ LET r == generate_embedding(batch)
       IN  embedOut' = [done |-> TRUE, raised |-> r.raised, embeddings |-> r.embeddings]
    /\ UNCHANGED <<batch, source, parseOut, url, nsOut, tree, scanOut, cloned, index,
                   cloneCalls, nSubmits, resp>>

NextEmbed == GenerateEmbedding

SpecEmbed == InitEmbed /\ [][NextEmbed]_vars

\* C12: generate_embedding returns one record per input chunk, in input
\* order, and a chunk lacking an expected key does not abort the batch.
C12_OneRecordPerChunk ==
    embedOut.done =>
        /\ ~embedOut.raised
        /\ Len(embedOut.embeddings) = Len(batch)
        /\ \A i \in 1..Len(batch) :
               "content" \in DOMAIN batch[i] =>
                   embedOut.embeddings[i].embedding = Encode(batch[i].content)

----------------------------------------------------------------------------
(* src/backend/main.py: the handlers the endpoint tests exercise (SpecBackend) *)

\* the request bodies of test_main.py and two more queries that name a namespace
NotAValidUrl == <<"n", "o", "t", "_", "a", "_", "v", "a", "l", "i", "d", "_", "u", "r", "l">>
BackendUrls == {NotAValidUrl, UrlB}
BackendRepoNames == {RepoName(u) : u \in BackendUrls}

NamespaceEq == <<"n", "a", "m", "e", "s", "p", "a", "c", "e", "=">>
EmptyQuery == <<>>
PlainQuery == <<"q">>
NamespaceOnlyQuery == NamespaceEq
NamespaceBQuery == NamespaceEq \o <<"b", " ", "q">>
NamespaceCrQuery == NamespaceEq \o <<"\r", "b", "U+00A0", "q">>
BackendQueries ==
    {EmptyQuery, PlainQuery, NamespaceOnlyQuery, NamespaceBQuery, NamespaceCrQuery}

DefaultNamespace == <<"d", "e", "f", "a", "u", "l", "t">>
DefaultQuestion == <<"W", "h", "a", "t", " ", "i", "s", " ", "t", "h", "i", "s", " ", "c", "o", "d", "e", " ", "a", "b", "o", "u", "t", "?">>
\* the characters str.isspace() holds for, at which strip and split cut;
\* those without an escape are named by their code point
Whitespace ==
    {"\t", "\n", "U+000B", "\f", "\r", "U+001C", "U+001D", "U+001E", "U+001F", " ",
     "U+0085", "U+00A0", "U+1680", "U+2000", "U+2001", "U+2002", "U+2003", "U+2004",
     "U+2005", "U+2006", "U+2007", "U+2008", "U+2009", "U+200A", "U+2028", "U+2029",
     "U+202F", "U+205F", "U+3000"}

\* Repo.clone_from can succeed only on a URL behind which a repository lies
Clonable(repo_url) == repo_url \in Urls

\* the details of the HTTPExceptions raised, as their words
DetailCloneFailed == <<"Failed", "to", "clone", "repository.">>
DetailNoChunks == <<"No", "valid", "code", "chunks", "found", "in", "the", "repository.">>
DetailNoEmbeddings == <<"Failed", "to", "generate", "embeddings.">>
DetailUnexpected == <<"An", "unexpected", "error", "occurred.">>
DetailUnpack ==
    <<"not", "enough", "values", "to", "unpack", "(expected", "at", "least", "1,", "got", "0)">>
DetailOfFault(fault) == <<fault, "failed">>

\* clone_repository of src/backend/main.py, the same statements as in src/main.py
backend_clone_repository(cl, repo_url, fault) == clone_repository(cl, repo_url, fault)

\* POST /submit-repo of src/backend/main.py: an HTTPException is re-raised as
\* it is, any other exception becomes 500 "An unexpected error occurred."
backend_submit_repo(cl, idx, repo_url, fault) ==
    LET namespace == RepoName(repo_url)
        c == backend_clone_repository(cl, repo_url, fault)
        p == parse_repo_store_all(c.repo_path, c.cloned[RepoName(repo_url)].files)
        e == get_huggingface_embeddings(p.chunks, fault)
        documents == Documents(p.chunks, repo_url)
        fail(status, detail, calls) ==
            [status |-> status, detail |-> detail, calls |-> calls, cloned |-> c.cloned,
             index |-> idx]
    IN
    IF c.raised THEN fail(500, DetailCloneFailed, <<"clone">>)
    ELSE IF p.raised THEN fail(500, DetailUnexpected, <<"clone", "parse">>)
    ELSE IF p.chunks = <<>> THEN fail(400, DetailNoChunks, <<"clone", "parse">>)
    ELSE IF e.raised THEN fail(500, DetailUnexpected, <<"clone", "parse", "embed">>)
    ELSE IF e.n = 0 THEN fail(500, DetailNoEmbeddings, <<"clone", "parse", "embed">>)
    ELSE IF fault = "store"
    THEN fail(500, DetailUnexpected, <<"clone", "parse", "embed", "store">>)
    ELSE [status |-> 200, detail |-> <<>>,
          calls |-> <<"clone", "parse", "embed", "store">>, cloned |-> c.cloned,
          index |-> store_embeddings(idx, documents, namespace)]

\* s.split("namespace=")[1]: what lies between the first occurrence of the
\* separator and the next one (or the end), for an s that holds the separator
FirstAt(s, sep) ==
    CHOOSE i \in 1..Len(s) :
        /\ SubSeq(s, i, i + Len(sep) - 1) = sep
        /\ \A j \in 1..(i - 1) : SubSeq(s, j, j + Len(sep) - 1) # sep

AfterFirst(s, sep) == SubSeq(s, FirstAt(s, sep) + Len(sep), Len(s))

SecondPart(s, sep) ==
    LET rest == AfterFirst(s, sep) IN
    IF IsSubstr(sep, rest) THEN SubSeq(rest, 1, FirstAt(rest, sep) - 1) ELSE rest

\* s.lstrip(), s.strip()
RECURSIVE LStrip(_)
LStrip(s) ==
    IF s # <<>> /\ Head(s) \in Whitespace THEN LStrip(Tail(s)) ELSE s

RECURSIVE RStrip(_)
RStrip(s) ==
    IF s # <<>> /\ s[Len(s)] \in Whitespace THEN RStrip(SubSeq(s, 1, Len(s) - 1)) ELSE s

Strip(s) == RStrip(LStrip(s))

\* the first whitespace-free word of a string that starts with none
RECURSIVE FirstWord(_)
FirstWord(s) ==
    IF s = <<>> \/ Head(s) \in Whitespace THEN <<>>
    ELSE <<Head(s)>> \o FirstWord(Tail(s))

\* s.split(maxsplit=1): the first word and, if anything follows the whitespace
\* after it, the rest
SplitOnce(s) ==
    LET t == LStrip(s)
        first == FirstWord(t)
        rest == LStrip(SubSeq(t, Len(first) + 1, Len(t)))
    IN  IF t = <<>> THEN <<>>
        ELSE IF rest = <<>> THEN <<first>>
        ELSE <<first, rest>>

\* the namespace and the question query_codebase takes out of request.query;
\* unpacking an empty split raises ValueError
ParseQuery(request_query) ==
    IF IsSubstr(NamespaceEq, request_query)
    THEN LET words == SplitOnce(Strip(SecondPart(request_query, NamespaceEq))) IN
         IF words = <<>> THEN [raised |-> TRUE, namespace |-> <<>>, query |-> <<>>]
         ELSE [raised |-> FALSE, namespace |-> words[1],
               query |-> IF Len(words) > 1 THEN words[2] ELSE DefaultQuestion]
    ELSE [raised |-> FALSE, namespace |-> DefaultNamespace, query |-> request_query]

\* pinecone_index.query on the namespace parsed out of the query: a namespace
\* the index does not hold matches nothing
BackendIndexQuery(idx, namespace) ==
    IF namespace \in DOMAIN idx THEN IndexQuery(idx, namespace) ELSE {{}}

\* the prompt of src/backend/main.py
BackendPrompt(contexts, query) ==
    [open |-> "<CONTEXT>\n", contexts |-> contexts, separator |-> "\n\n-------\n\n",
     close |-> "\n-------\n</CONTEXT>\n\n\n\nMY QUESTION:\n", question |-> query]

\* perform_rag of src/backend/main.py
backend_perform_rag(query, namespace, fault, matches, llm) ==
    LET embed(ok) == [op |-> "embed", ok |-> ok, text |-> query]
        retrieve(ok, m) ==
            [op |-> "query", ok |-> ok, namespace |-> namespace, matches |-> m,
             response |-> QueryResponse(m, query)]
    IN
    IF fault = "embed"
    THEN [raised |-> TRUE, answer |-> "", calls |-> <<embed(FALSE)>>]
    ELSE IF fault = "query"
    THEN [raised |-> TRUE, answer |-> "", calls |-> <<embed(TRUE), retrieve(FALSE, {})>>]
    ELSE IF matches = {}
    THEN [raised |-> FALSE, answer |-> NoContext,
          calls |-> <<embed(TRUE), retrieve(TRUE, matches)>>]
    ELSE [raised |-> fault = "llm", answer |-> IF fault = "llm" THEN "" ELSE llm,
          calls |-> <<embed(TRUE), retrieve(TRUE, matches),
                      [op |-> "llm", ok |-> fault # "llm",
                       prompt |-> BackendPrompt(Contexts(QueryResponse(matches, query)),
                                                query)]>>]

\* POST /query of src/backend/main.py
backend_query_codebase(request_query, parsed, fault, matches, llm) ==
    IF parsed.raised
    THEN [kind |-> "backend_query", query |-> request_query, status |-> 500,
          detail |-> DetailUnpack, answer |-> "", calls |-> <<>>]
    ELSE LET r == backend_perform_rag(parsed.query, parsed.namespace, fault, matches, llm) IN
         [kind |-> "backend_query", query |-> request_query,
          status |-> IF r.raised THEN 500 ELSE 200,
          detail |-> IF r.raised THEN DetailOfFault(fault) ELSE <<>>,
          answer |-> r.answer, calls |-> r.calls]

InitBackend ==
    /\ cloned = [n \in BackendRepoNames |-> [exists |-> FALSE, files |-> <<>>]]
    /\ index = [ns \in Namespaces |-> {}]
    /\ nSubmits = 0
    /\ resp = [kind |-> "none"]
    /\ cloneCalls = [n \in RepoNames |-> [invoked |-> 0, succeeded |-> 0]]
    /\ url = <<>>
    /\ nsOut = NoNs
    /\ tree = NoTreeOnDisk
    /\ scanOut = NoScan
    /\ batch = <<>>
    /\ embedOut = NoEmbed
    /\ source = NoSource
    /\ parseOut = NoParse

BackendSubmitRepo ==
    /\ nSubmits < MaxSubmits
    /\ \E repo_url \in BackendUrls :
        \E fault \in IF Clonable(repo_url) THEN SubmitFaults ELSE {"clone"} :
            LET r == backend_submit_repo(cloned, index, repo_url, fault) IN
            /\ cloned' = r.cloned
            /\ index' = r.index
            /\ resp' = [kind |-> "backend_submit", url |-> repo_url, status |-> r.status,
                        detail |-> r.detail, calls |-> r.calls]
    /\ nSubmits' = nSubmits + 1
    /\ UNCHANGED <<batch, embedOut, source, parseOut, url, nsOut, tree, scanOut, cloneCalls>>

BackendQueryCodebase ==
    /\ \E request_query \in BackendQueries, fault \in QueryFaults, llm \in LlmAnswers :
        LET parsed == ParseQuery(request_query) IN
        \E matches \in IF parsed.raised THEN {{}}
                       ELSE BackendIndexQuery(index, parsed.namespace) :
            resp' = backend_query_codebase(request_query, parsed, fault, matches, llm)
    /\ UNCHANGED <<batch, embedOut, source, parseOut, url, nsOut, tree, scanOut, cloned,
                   index, cloneCalls, nSubmits>>

NextBackend == BackendSubmitRepo \/ BackendQueryCodebase

SpecBackend == InitBackend /\ [][NextBackend]_vars

\* C14: an invalid repository URL is answered 400 with a detail that holds
\* "Invalid URL", and an empty query 422 with a detail that holds "Invalid query".
C14_InvalidInputsAreRejected ==
    /\ (resp.kind = "backend_submit" /\ resp.url = NotAValidUrl) =>
           (resp.status = 400 /\ IsSubstr(<<"Invalid", "URL">>, resp.detail))
    /\ (resp.kind = "backend_query" /\ resp.query = EmptyQuery) =>
           (resp.status = 422 /\ IsSubstr(<<"Invalid", "query">>, resp.detail))

----------------------------------------------------------------------------
(* src/backend/api/chunking_parsing_AST.py: SimpleTreeSitterParser.parse (SpecParse) *)

MaxCodeLen == 3

\* the characters of a file text: "U+00E9" names the one character e-acute,
\* which bytes(code, "utf-8") encodes in two bytes
TwoByteChar == "U+00E9"
CodeChars == {"a", "\n", TwoByteChar}
Utf8Len(ch) == IF ch = TwoByteChar THEN 2 ELSE 1

Codes == UNION { [1..n -> CodeChars] : n \in 0..MaxCodeLen }

\* the offset in bytes(code, "utf-8") at which the character after the first
\* i characters starts
RECURSIVE ByteOffset(_, _)
ByteOffset(code, i) ==
    IF i = 0 THEN 0 ELSE ByteOffset(code, i - 1) + Utf8Len(code[i])

\* the row of that position: the line breaks before it
RowOf(code, i) == Cardinality({k \in 1..i : code[k] = "\n"})

\* the node tree-sitter reports for the characters i+1..j of the text: its
\* offsets are offsets into the encoded bytes, its points are (row, column)
TreeSitterNode(code, i, j, type) ==
    [type |-> type, start_byte |-> ByteOffset(code, i), end_byte |-> ByteOffset(code, j),
     start_row |-> RowOf(code, i), end_row |-> RowOf(code, j)]

\* a top-level node spans at least one character and neither starts nor ends
\* with a line break
NodeSpans(code) ==
    {sp \in (0..Len(code)) \X (0..Len(code)) :
        sp[1] < sp[2] /\ code[sp[1] + 1] # "\n" /\ code[sp[2]] # "\n"}

NodeTypes == {"function_definition", "comment"}

\* root.children: no node, one node, or two nodes one after the other
RootChildren(code) ==
    {<<>>}
    \cup {<<TreeSitterNode(code, sp[1], sp[2], t)>> : sp \in NodeSpans(code), t \in NodeTypes}
    \cup {<<TreeSitterNode(code, pr[1][1], pr[1][2], "class_definition"),
            TreeSitterNode(code, pr[2][1], pr[2][2], "function_definition")>> :
            pr \in {q \in NodeSpans(code) \X NodeSpans(code) : q[2][1] >= q[1][2]}}

InitParse ==
    /\ \E code \in Codes : \E children \in RootChildren(code) :
           source = [code |-> code, children |-> children]
    /\ parseOut = NoParse
    /\ batch = <<>>
    /\ embedOut = NoEmbed
    /\ url = <<>>
    /\ nsOut = NoNs
    /\ tree = NoTreeOnDisk
    /\ scanOut = NoScan
    /\ cloned = [n \in RepoNames |-> [exists |-> FALSE, files |-> <<>>]]
    /\ index = [ns \in Namespaces |-> {}]
    /\ cloneCalls = [n \in RepoNames |-> [invoked |-> 0, succeeded |-> 0]]
    /\ nSubmits = 0
    /\ resp = [kind |-> "none"]

\* SimpleTreeSitterParser.parse(code) once the tree is built
ParseCode ==
    /\ ~parseOut.done
    /\ parseOut' = [done |-> TRUE, chunks |-> ParseChildren(source.code, source.children)]
    /\ UNCHANGED <<batch, embedOut, source, url, nsOut, tree, scanOut, cloned, index,
                   cloneCalls, nSubmits, resp>>

NextParse == ParseCode

SpecParse == InitParse /\ [][NextParse]_vars

\* the nodes of the tree that parse turns into chunks, in order
ChunkedNodes == SelectSeq(source.children, LAMBDA n : ChunkType(n.type) # "")

\* the number of characters whose encoding fills the first b bytes
CharsBefore(code, b) == CHOOSE i \in 0..Len(code) : ByteOffset(code, i) = b

\* the source text of a node: the characters its byte range encodes
NodeText(code, n) ==
    SubSeq(code, CharsBefore(code, n.start_byte) + 1, CharsBefore(code, n.end_byte))

\* the text of the lines a..b (1-based) of the file
LinesText(code, a, b) ==
    LET first == CHOOSE i \in 0..Len(code) :
                     RowOf(code, i) = a - 1 /\ (i = 0 \/ code[i] = "\n")
        last == CHOOSE j \in 0..Len(code) :
                     RowOf(code, j) = b - 1 /\ (j = Len(code) \/ code[j + 1] = "\n")
    IN  SubSeq(code, first + 1, last)

\* C15: every structural chunk has non-empty content, a 1-based line range
\* with start_line <= end_line, and as content exactly the source text of
\* its node, which lies within those lines, also when the text holds
\* characters of more than one byte.
C15_ChunkIsItsNodeText ==
    parseOut.done =>
        /\ Len(parseOut.chunks) = Len(ChunkedNodes)
        /\ \A k \in 1..Len(parseOut.chunks) :
               LET chunk == parseOut.chunks[k] IN
               /\ chunk.content # <<>>
               /\ 1 <= chunk.start_line /\ chunk.start_line <= chunk.end_line
               /\ chunk.content = NodeText(source.code, ChunkedNodes[k])
               /\ IsSubstr(chunk.content,
                           LinesText(source.code, chunk.start_line, chunk.end_line))

\* the same property on texts of one-byte characters only
C15_AsciiChunkIsItsNodeText ==
    (\A i \in 1..Len(source.code) : Utf8Len(source.code[i]) = 1) => C15_ChunkIsItsNodeText

----------------------------------------------------------------------------
(* src/backend/api/github_clone.py and src/backend/api/pineconestore.py:     *)
(* clone_repo and the store_embeddings without namespace.  No route and no   *)
(* handler calls them; SpecClone and SpecStore run them beside               *)
(* POST /submit-repo, with which they share the clone directory and the      *)
(* index.                                                                    *)

MaxCloneCalls == 1
MaxStored == 2

\* the namespace pinecone writes to when from_documents is given none
NsDefault == <<>>

\* clone_repo(request) on the clone directories cl; with fault "clone"
\* Repo.clone_from raises and the except answers 500 with detail str(e)
clone_repo(cl, repo_url, fault) ==
    LET repo_name == RepoName(repo_url)
        repo_path == RepoPath(repo_name) IN
    IF cl[repo_name].exists
    THEN [status |-> 200, result |-> "already_cloned", detail |-> <<>>,
          repo_path |-> repo_path, clone_from |-> FALSE, cloned |-> cl]
    ELSE IF fault # "clone"
    THEN [status |-> 200, result |-> "cloned", detail |-> <<>>,
          repo_path |-> repo_path, clone_from |-> TRUE,
          cloned |-> [cl EXCEPT ![repo_name] = [exists |-> TRUE, files |-> Remote(repo_url)]]]
    ELSE [status |-> 500, result |-> "", detail |-> DetailOfFault(fault),
          repo_path |-> repo_path, clone_from |-> TRUE, cloned |-> cl]

\* store_embeddings(documents) of pineconestore.py: from_documents without
\* ids and without a namespace; an exception of the call is not caught
store_embeddings_default(idx, documents, fault) ==
    IF fault = "store" THEN [raised |-> TRUE, index |-> idx]
    ELSE [raised |-> FALSE, index |-> store_embeddings(idx, documents, NsDefault)]

\* the documents handed to it: the chunks of o/b
ApiDocuments == Documents(<<FileChunk(TextB, MainPy)>>, UrlB)

InitApi ==
    /\ cloned = [n \in RepoNames |-> [exists |-> FALSE, files |-> <<>>]]
    /\ index = [ns \in Namespaces \cup {NsDefault} |-> {}]
    /\ cloneCalls = [n \in RepoNames |-> [invoked |-> 0, succeeded |-> 0]]
    /\ nSubmits = 0
    /\ resp = [kind |-> "none"]
    /\ url = <<>>
    /\ nsOut = NoNs
    /\ tree = NoTreeOnDisk
    /\ scanOut = NoScan
    /\ batch = <<>>
    /\ embedOut = NoEmbed
    /\ source = NoSource
    /\ parseOut = NoParse

CloneRepo ==
    /\ \E repo_url \in Urls, fault \in {"none", "clone"} :
        LET r == clone_repo(cloned, repo_url, fault)
            n == RepoName(repo_url) IN
        /\ r.clone_from => cloneCalls[n].invoked < MaxCloneCalls
        /\ cloned' = r.cloned
        /\ cloneCalls' =
              IF r.clone_from
              THEN [cloneCalls EXCEPT
                      ![n] = [invoked |-> @.invoked + 1,
                              succeeded |-> @.succeeded +
                                  (IF r.cloned[n].exists /\ ~cloned[n].exists THEN 1 ELSE 0)]]
              ELSE cloneCalls
        /\ resp' = [kind |-> "clone_repo", url |-> repo_url, status |-> r.status,
                    result |-> r.result, detail |-> r.detail, existed |-> cloned[n].exists,
                    clone_from |-> r.clone_from, repo_path |-> r.repo_path]
    /\ UNCHANGED <<batch, embedOut, source, parseOut, url, nsOut, tree, scanOut, index,
                   nSubmits>>

StoreEmbeddingsDefault ==
    /\ Cardinality(index[NsDefault]) < MaxStored
    /\ \E fault \in {"none", "store"} :
        LET r == store_embeddings_default(index, ApiDocuments, fault) IN
        /\ index' = r.index
        /\ resp' = [kind |-> "store_embeddings", raised |-> r.raised]
    /\ UNCHANGED <<batch, embedOut, source, parseOut, url, nsOut, tree, scanOut, cloned,
                   cloneCalls, nSubmits>>

\* clone_repo beside POST /submit-repo: both work on the clone directories
NextClone == CloneRepo \/ SubmitRepo

SpecClone == InitApi /\ [][NextClone]_vars

\* the store_embeddings without namespace beside POST /submit-repo: both
\* write to the index
NextStore == StoreEmbeddingsDefault \/ SubmitRepo

SpecStore == InitApi /\ [][NextStore]_vars

====
